---------------------------- MODULE Spec2Model ----------------------------
(***************************************************************************)
(* NYC-UHI data pipeline.                                                  *)
(*                                                                         *)
(*   Data_fetch/fetch_acs_nyc_2020_2024.py : fetch_json, to_int, clean_csv *)
(*                                           and main (the ACS fetcher)    *)
(*   Data_fetch/aggregate_acs.py           : weighted_avg and main (key    *)
(*                                           normalisation, join check)    *)
(*   Data_fetch/joint.py                   : key normalisation             *)
(*                                                                         *)
(* Optional values (Python None / pandas NaN) are sequences of length at   *)
(* most one: None is << >>, the number n is << n >>.                       *)
(***************************************************************************)
EXTENDS Integers, Sequences, FiniteSets, TLC

VARIABLES
    \* ---- fetcher main() ----
    pc,             \* control position of main()
    year,           \* the loop variable `year` (0 before the first binding)
    yi,             \* position of the `for year in YEARS` iterator
    ci,             \* position of the `for county in COUNTIES.keys()` iterator
    rows,           \* the list `rows`
    all_rows_long,  \* the list `all_rows_long`
    files,          \* the output directory: path -> file
    wi,             \* rows already written by the writer loop in progress
    df,             \* the DataFrame held by clean_csv
    data,           \* the table fetch_json returned
    calls,          \* history: the (year, county) of every fetch_json call
    failed,         \* history: the (year, county) whose fetch_json raised
    fetched,        \* history: the records built from successful fetches
    \* ---- fetch_json ----
    fpc,            \* control position of fetch_json
    retries,        \* its parameter `retries`
    i,              \* position of the `for i in range(retries)` iterator
    delays,         \* history: the arguments of time.sleep, in order
    outs,           \* history: the class of every attempt's outcome, in order
    err,            \* the exception fetch_json raised
    \* ---- row construction (main, lines 188-228) ----
    rec,            \* one response row: header -> raw cell
    row,            \* the record built from it
    rpc,
    \* ---- weighted_avg ----
    grp,            \* the group's (value, weight) cells
    wres,           \* what weighted_avg returned
    wpc,
    \* ---- identifier normalisation ----
    key_in,         \* the identifier cell as read
    key_out,        \* the cell after astype(str).str.zfill(11)
    npc,
    \* ---- reconcile (aggregate_acs.main, lines 78-85) ----
    df_keys,        \* identifier of each indicator row
    gdf_keys,       \* identifiers of the boundary rows
    merged,         \* GROUP_FIELD of each merged row
    cpc

mvars == <<pc, year, yi, ci, rows, all_rows_long, files, wi, df, data,
           calls, failed, fetched>>
jvars == <<fpc, retries, i, delays, outs, err>>
rvars == <<rec, row, rpc>>
wvars == <<grp, wres, wpc>>
nvars == <<key_in, key_out, npc>>
cvars == <<df_keys, gdf_keys, merged, cpc>>
vars  == <<mvars, jvars, rvars, wvars, nvars, cvars>>

None == << >>

Some(n) == << n >>

RECURSIVE Pow(_, _)
Pow(b, e) == IF e = 0 THEN 1 ELSE b * Pow(b, e - 1)

\* ------------------------------------------------------------------------
\* Bounds of the model
\* ------------------------------------------------------------------------
MaxTracts == 2

MaxRetries == 6

MaxMembers == 3

MaxLen == 12

MaxInt == 120

MaxRows == 60

\* ------------------------------------------------------------------------
\* Program constants
\* ------------------------------------------------------------------------
YEARS == <<2020, 2021, 2022, 2023>>

COUNTIES == <<"005", "047", "061", "081", "085">>

DefaultRetries == 6

BackoffNum == 16

BackoffDen == 10

Sentinel == -666666666

Sentinel2 == -222222222

Width == 11

ThresholdNum == 2

ThresholdDen == 100

\* ------------------------------------------------------------------------
\* fetch_json
\* ------------------------------------------------------------------------
\* What one urlopen + json.loads attempt can end in: an HTTPError with a
\* status code, a URLError, a TimeoutError, a body that is not JSON, or a
\* decoded JSON value.
HttpCodes == {429, 500, 502, 503, 504, 400, 404}

RetryCodes == {429, 500, 502, 503, 504}

Outcomes == [kind : {"HTTPError"}, code : HttpCodes]
            \cup [kind : {"URLError", "TimeoutError", "JSONDecodeError", "json"},
                  code : {200}]

Classify(o) ==
    CASE o.kind = "json" -> "ok"
      [] o.kind = "HTTPError" /\ o.code \in RetryCodes -> "transient"
      [] o.kind = "HTTPError" -> "permanent"
      [] o.kind = "JSONDecodeError" -> "malformed"
      [] OTHER -> "transient"

\* time.sleep(backoff ** i) with backoff = 1.6, in units of 10^-Scale s:
\* 1.6^k = 16^k * 10^(Scale-k) / 10^Scale, exact for k <= Scale.
Scale == MaxRetries + 1

Delay(k) == Pow(BackoffNum, k) * Pow(BackoffDen, Scale - k)

\* The tables a decoded response can hold: n data rows after the header
\* (n = 0 is the empty/short table).  Tract 2 carries the ACS missing-value
\* code as its median income.
Income(t) == IF t = 2 THEN Some(Sentinel) ELSE Some(50 + t)

Table(n) == [t \in 1..n |-> [tract |-> t, median_income |-> Income(t)]]

\* an off-by-one loop bound: one attempt too many
InRangeOffByOne(k, n) == k <= n

\* range(retries) still has the index k to give
InRange(k, n) == k < n

\* for i in range(retries): one pass of the loop body
Attempt ==
    /\ pc = "fetch_wait"
    /\ fpc = "try"
    /\ InRange(i, retries)
    /\ \E o \in Outcomes :
        LET c == Classify(o) IN
        /\ outs' = Append(outs, c)
        /\ CASE c = "ok" ->
                  /\ \E n \in 0..MaxTracts : data' = Table(n)
                  /\ fpc' = "returned"
                  /\ UNCHANGED <<i, delays, err>>
             [] c = "permanent" ->
                  /\ fpc' = "raised"
                  /\ err' = "HTTPError"
                  /\ UNCHANGED <<i, delays, data>>
             [] OTHER ->
                  /\ delays' = Append(delays, Delay(i))
                  /\ i' = i + 1
                  /\ UNCHANGED <<fpc, err, data>>
    /\ UNCHANGED <<pc, year, yi, ci, rows, all_rows_long, files, wi, df,
                   calls, failed, fetched, retries>>
    /\ UNCHANGED <<rvars, wvars, nvars, cvars>>

\* the range is used up: raise RuntimeError
Exhausted ==
    /\ pc = "fetch_wait"
    /\ fpc = "try"
    /\ ~InRange(i, retries)
    /\ fpc' = "raised"
    /\ err' = "RuntimeError"
    /\ UNCHANGED <<retries, i, delays, outs>>
    /\ UNCHANGED <<mvars, rvars, wvars, nvars, cvars>>

\* ------------------------------------------------------------------------
\* main() of the fetcher
\* ------------------------------------------------------------------------
LongPath == <<"long", 0>>

WidePath == <<"wide", 0>>

YearPath(y) == <<"year", y>>

Paths == {YearPath(YEARS[k]) : k \in 1..Len(YEARS)} \cup {LongPath, WidePath}

\* A file of the output directory.  `full` is set when the writer that
\* opened it has written every row of its dataset and closed it; `cols` is
\* the number of columns of its header line.
NoFile == [exists |-> FALSE, cols |-> 0, rows |-> << >>, full |-> FALSE]

Opened(ncols) == [exists |-> TRUE, cols |-> ncols, rows |-> << >>, full |-> FALSE]

\* open(path, "w") + writer.writeheader()
OpenW(path, ncols) == files' = [files EXCEPT ![path] = Opened(ncols)]

WriteRow(path, r) == files' = [files EXCEPT ![path].rows = Append(@, r)]

CloseW(path) == files' = [files EXCEPT ![path].full = TRUE]

\* the keys of a long record: year, GEOID, median_income
NLongCols == Cardinality({"year", "GEOID", "median_income"})

\* keep_static + one column per (year variable, year)
NWideCols == 1 + Len(YEARS)

\* lines 188-228, as far as the stacked and wide datasets need them
Record(y, county, r) ==
    [year |-> y, GEOID |-> <<county, r.tract>>, median_income |-> r.median_income]

Records(y, county, table) == [t \in 1..Len(table) |-> Record(y, county, table[t])]

Range(s) == {s[k] : k \in 1..Len(s)}

\* for year in YEARS: rows = []          (lines 171-172)
YearIter ==
    /\ pc = "years"
    /\ yi <= Len(YEARS)
    /\ year' = YEARS[yi]
    /\ rows' = << >>
    /\ yi' = yi + 1
    /\ pc' = IF yi = Len(YEARS) THEN "county" ELSE "years"
    /\ UNCHANGED <<ci, all_rows_long, files, wi, df, data, calls, failed, fetched>>
    /\ UNCHANGED <<jvars, rvars, wvars, nvars, cvars>>

\* for county in COUNTIES.keys(): url = build_url(...); fetch_json(url)
CountyIter ==
    /\ pc = "county"
    /\ ci <= Len(COUNTIES)
    /\ calls' = Append(calls, <<year, COUNTIES[ci]>>)
    /\ fpc' = "try"
    /\ retries' = DefaultRetries
    /\ i' = 0
    /\ delays' = << >>
    /\ outs' = << >>
    /\ err' = "none"
    /\ pc' = "fetch_wait"
    /\ UNCHANGED <<year, yi, ci, rows, all_rows_long, files, wi, df, data,
                   failed, fetched>>
    /\ UNCHANGED <<rvars, wvars, nvars, cvars>>

\* except Exception as e: print(...); continue          (lines 230-233)
FetchFailed ==
    /\ pc = "fetch_wait"
    /\ fpc = "raised"
    /\ failed' = failed \cup {<<year, COUNTIES[ci]>>}
    /\ ci' = ci + 1
    /\ pc' = "county"
    /\ fpc' = "idle"
    /\ outs' = << >>
    /\ UNCHANGED <<year, yi, rows, all_rows_long, files, wi, df, data, calls, fetched>>
    /\ UNCHANGED <<retries, i, delays, err>>
    /\ UNCHANGED <<rvars, wvars, nvars, cvars>>

\* if not data or len(data) < 2: continue               (lines 179-181)
ShortTable ==
    /\ pc = "fetch_wait"
    /\ fpc = "returned"
    /\ Len(data) = 0
    /\ ci' = ci + 1
    /\ pc' = "county"
    /\ fpc' = "idle"
    /\ outs' = << >>
    /\ UNCHANGED <<year, yi, rows, all_rows_long, files, wi, df, data, calls,
                   failed, fetched>>
    /\ UNCHANGED <<retries, i, delays, err>>
    /\ UNCHANGED <<rvars, wvars, nvars, cvars>>

\* for rec in data[1:]: ... rows.append(row); then open the year's file
\* (lines 188-228, 246-250)
ParseRows ==
    /\ pc = "fetch_wait"
    /\ fpc = "returned"
    /\ Len(data) > 0
    /\ LET new == Records(year, COUNTIES[ci], data) IN
        /\ rows' = rows \o new
        /\ fetched' = fetched \cup Range(new)
    /\ OpenW(YearPath(year), NLongCols)
    /\ wi' = 0
    /\ pc' = "write_year"
    /\ fpc' = "idle"
    /\ outs' = << >>
    /\ UNCHANGED <<year, yi, ci, all_rows_long, df, data, calls, failed>>
    /\ UNCHANGED <<retries, i, delays, err>>
    /\ UNCHANGED <<rvars, wvars, nvars, cvars>>

\* for r in rows: writer.writerow(...)                  (lines 251-252)
WriteYearRow ==
    /\ pc = "write_year"
    /\ wi < Len(rows)
    /\ WriteRow(YearPath(year), rows[wi + 1])
    /\ wi' = wi + 1
    /\ UNCHANGED <<pc, year, yi, ci, rows, all_rows_long, df, data, calls,
                   failed, fetched>>
    /\ UNCHANGED <<jvars, rvars, wvars, nvars, cvars>>

\* the with block ends; all_rows_long.extend(rows); time.sleep(0.6)
\* (lines 252-258)
WriteYearClose ==
    /\ pc = "write_year"
    /\ wi = Len(rows)
    /\ CloseW(YearPath(year))
    /\ all_rows_long' = all_rows_long \o rows
    /\ ci' = ci + 1
    /\ pc' = "county"
    /\ UNCHANGED <<year, yi, rows, wi, df, data, calls, failed, fetched>>
    /\ UNCHANGED <<jvars, rvars, wvars, nvars, cvars>>

\* the county loop ends; the long file is opened and its header written
\* (lines 261-265)
OpenLong ==
    /\ pc = "county"
    /\ ci > Len(COUNTIES)
    /\ OpenW(LongPath, IF Len(all_rows_long) > 0 THEN NLongCols ELSE 0)
    /\ wi' = 0
    /\ pc' = "write_long"
    /\ UNCHANGED <<year, yi, ci, rows, all_rows_long, df, data, calls, failed, fetched>>
    /\ UNCHANGED <<jvars, rvars, wvars, nvars, cvars>>

\* for r in all_rows_long: writer.writerow(r)           (lines 266-267)
WriteLongRow ==
    /\ pc = "write_long"
    /\ wi < Len(all_rows_long)
    /\ WriteRow(LongPath, all_rows_long[wi + 1])
    /\ wi' = wi + 1
    /\ UNCHANGED <<pc, year, yi, ci, rows, all_rows_long, df, data, calls,
                   failed, fetched>>
    /\ UNCHANGED <<jvars, rvars, wvars, nvars, cvars>>

WriteLongClose ==
    /\ pc = "write_long"
    /\ wi = Len(all_rows_long)
    /\ CloseW(LongPath)
    /\ pc' = "clean_long"
    /\ UNCHANGED <<year, yi, ci, rows, all_rows_long, wi, df, data, calls,
                   failed, fetched>>
    /\ UNCHANGED <<jvars, rvars, wvars, nvars, cvars>>

\* df.replace({-666666666: nan, -222222222: nan}) on one cell
CleanCell(c) == IF c = Some(Sentinel) \/ c = Some(Sentinel2) THEN None ELSE c

CleanLongRow(r) == [r EXCEPT !.median_income = CleanCell(@)]

CleanWideRow(r) ==
    [r EXCEPT !.median_income = [y \in DOMAIN @ |-> CleanCell(@[y])]]

\* clean_csv, pd.read_csv and df.replace, then to_csv opening the same path.
\* A file whose header line has no column makes read_csv raise
\* EmptyDataError, which nothing catches.
CleanRead(path, cleaned, from, to) ==
    /\ pc = from
    /\ IF files[path].cols = 0
       THEN /\ pc' = "crashed"
            /\ UNCHANGED <<df, files>>
       ELSE /\ df' = cleaned
            /\ OpenW(path, files[path].cols)
            /\ pc' = to
    /\ UNCHANGED <<year, yi, ci, rows, all_rows_long, wi, data, calls, failed, fetched>>
    /\ UNCHANGED <<jvars, rvars, wvars, nvars, cvars>>

\* to_csv writes the frame and closes the file
CleanSave(path, from, to) ==
    /\ pc = from
    /\ files' = [files EXCEPT ![path].rows = df, ![path].full = TRUE]
    /\ pc' = to
    /\ UNCHANGED <<year, yi, ci, rows, all_rows_long, wi, df, data, calls,
                   failed, fetched>>
    /\ UNCHANGED <<jvars, rvars, wvars, nvars, cvars>>

CleanLongRead ==
    CleanRead(LongPath,
              [k \in 1..Len(files[LongPath].rows) |-> CleanLongRow(files[LongPath].rows[k])],
              "clean_long", "save_long")

CleanLongSave == CleanSave(LongPath, "save_long", "build_wide")

\* the GEOIDs of a list of rows, each once, in order of first appearance
\* (the keys of by_geo)
RECURSIVE Keys(_)
Keys(s) ==
    IF s = << >> THEN << >>
    ELSE LET front == Keys(SubSeq(s, 1, Len(s) - 1))
             g == s[Len(s)].GEOID
         IN IF \E k \in 1..Len(front) : front[k] = g THEN front ELSE Append(front, g)

\* by_geo[geoid][f"{v}_{y}"] = r.get(v): the last row of (geoid, y) wins
RECURSIVE Cell(_, _, _)
Cell(s, g, y) ==
    IF s = << >> THEN None
    ELSE LET r == s[Len(s)]
         IN IF r.GEOID = g /\ r.year = y THEN r.median_income
            ELSE Cell(SubSeq(s, 1, Len(s) - 1), g, y)

WideRows(s) ==
    LET ks == Keys(s) IN
    [k \in 1..Len(ks) |->
        [GEOID |-> ks[k],
         median_income |-> [y \in Range(YEARS) |-> Cell(s, ks[k], y)]]]

\* lines 276-295: by_geo and geo_meta are built, the wide file is opened
BuildWide ==
    /\ pc = "build_wide"
    /\ df' = WideRows(all_rows_long)
    /\ OpenW(WidePath, NWideCols)
    /\ wi' = 0
    /\ pc' = "write_wide"
    /\ UNCHANGED <<year, yi, ci, rows, all_rows_long, data, calls, failed, fetched>>
    /\ UNCHANGED <<jvars, rvars, wvars, nvars, cvars>>

\* for geoid, vals in by_geo.items(): writer.writerow(row)   (lines 296-299)
WriteWideRow ==
    /\ pc = "write_wide"
    /\ wi < Len(df)
    /\ WriteRow(WidePath, df[wi + 1])
    /\ wi' = wi + 1
    /\ UNCHANGED <<pc, year, yi, ci, rows, all_rows_long, df, data, calls,
                   failed, fetched>>
    /\ UNCHANGED <<jvars, rvars, wvars, nvars, cvars>>

WriteWideClose ==
    /\ pc = "write_wide"
    /\ wi = Len(df)
    /\ CloseW(WidePath)
    /\ pc' = "clean_wide"
    /\ UNCHANGED <<year, yi, ci, rows, all_rows_long, wi, df, data, calls,
                   failed, fetched>>
    /\ UNCHANGED <<jvars, rvars, wvars, nvars, cvars>>

CleanWideRead ==
    CleanRead(WidePath,
              [k \in 1..Len(files[WidePath].rows) |-> CleanWideRow(files[WidePath].rows[k])],
              "clean_wide", "save_wide")

CleanWideSave == CleanSave(WidePath, "save_wide", "done")

\* A KeyboardInterrupt is no Exception: neither fetch_json nor the county
\* loop catches it, the __main__ guard prints and exits (lines 305-310).
\* A with block it leaves closes its file as written so far.
Running == pc \notin {"done", "crashed", "cancelled"}

Interrupt ==
    /\ Running
    /\ pc' = "cancelled"
    /\ UNCHANGED <<year, yi, ci, rows, all_rows_long, files, wi, df, data,
                   calls, failed, fetched>>
    /\ UNCHANGED <<jvars, rvars, wvars, nvars, cvars>>

\* ------------------------------------------------------------------------
\* Specifications
\* ------------------------------------------------------------------------
IdleMain ==
    /\ year = 0 /\ yi = 1 /\ ci = 1
    /\ rows = << >> /\ all_rows_long = << >>
    /\ files = [p \in Paths |-> NoFile]
    /\ wi = 0 /\ df = << >> /\ data = << >>
    /\ calls = << >> /\ failed = {} /\ fetched = {}

IdleFetch ==
    /\ fpc = "idle" /\ retries = DefaultRetries /\ i = 0
    /\ delays = << >> /\ outs = << >> /\ err = "none"

IdleRow == rec = << >> /\ row = << >> /\ rpc = "off"

IdleWavg == grp = << >> /\ wres = << >> /\ wpc = "off"

IdleNorm == key_in = << >> /\ key_out = << >> /\ npc = "off"

IdleJoin == df_keys = << >> /\ gdf_keys = {} /\ merged = << >> /\ cpc = "off"

\* python fetch_acs_nyc_2020_2024.py
Init ==
    /\ pc = "years"
    /\ IdleMain /\ IdleFetch /\ IdleRow /\ IdleWavg /\ IdleNorm /\ IdleJoin

Next ==
    \/ YearIter
    \/ CountyIter
    \/ Attempt
    \/ Exhausted
    \/ FetchFailed
    \/ ShortTable
    \/ ParseRows
    \/ WriteYearRow
    \/ WriteYearClose
    \/ OpenLong
    \/ WriteLongRow
    \/ WriteLongClose
    \/ CleanLongRead
    \/ CleanLongSave
    \/ BuildWide
    \/ WriteWideRow
    \/ WriteWideClose
    \/ CleanWideRead
    \/ CleanWideSave
    \/ Interrupt

Spec == Init /\ [][Next]_vars

\* one call fetch_json(url, retries) with any retries up to MaxRetries
InitFetch ==
    /\ pc = "fetch_wait"
    /\ IdleMain /\ IdleRow /\ IdleWavg /\ IdleNorm /\ IdleJoin
    /\ fpc = "try"
    /\ retries \in 0..MaxRetries
    /\ i = 0 /\ delays = << >> /\ outs = << >> /\ err = "none"

NextFetch == Attempt \/ Exhausted

SpecFetch == InitFetch /\ [][NextFetch]_vars

\* ------------------------------------------------------------------------
\* Claims about the fetcher
\* ------------------------------------------------------------------------
Count(s, x) == Cardinality({k \in 1..Len(s) : s[k] = x})

CountKey(s, g, y) == Cardinality({k \in 1..Len(s) : s[k].GEOID = g /\ s[k].year = y})

\* the run is past the fetch loop and was not interrupted
LoopDone == pc \in {"write_long", "clean_long", "save_long", "build_wide",
                    "write_wide", "clean_wide", "save_wide", "done", "crashed"}

\* the run ended without an interrupt
Ended == pc \in {"done", "crashed"}

\* position of a (vintage, sub-region) unit in the order YEARS x COUNTIES
UnitPos(y, c) ==
    LET yk == CHOOSE k \in 1..Len(YEARS) : YEARS[k] = y
        ck == CHOOSE k \in 1..Len(COUNTIES) : COUNTIES[k] = c
    IN (yk - 1) * Len(COUNTIES) + ck

Units == {<<YEARS[a], COUNTIES[b]>> : a \in 1..Len(YEARS), b \in 1..Len(COUNTIES)}

\* C1: once the fetch loop of main() is over, every (vintage, sub-region)
\* pair of YEARS x COUNTIES has been the subject of exactly one fetch_json
\* call, whatever the outcomes of the other pairs.
C1_OneCallPerPair ==
    LoopDone => \A u \in Units : Count(calls, u) = 1

\* C3: as long as every attempt of a fetch_json call ended in a transient or
\* malformed-response outcome, the call has not returned, has made at most
\* `retries` attempts, raises only RuntimeError and only after exactly
\* `retries` attempts, and has slept once per attempt for 1, 1.6, 2.56, ...
\* seconds, a strictly increasing sequence.
C3_RetryExhaustion ==
    (\A k \in 1..Len(outs) : outs[k] \in {"transient", "malformed"}) =>
        /\ fpc \in {"try", "raised"}
        /\ Len(outs) <= retries
        /\ Len(outs) < retries => fpc = "try"
        /\ fpc = "raised" => err = "RuntimeError" /\ Len(outs) = retries
        /\ Len(delays) = Len(outs)
        /\ Len(delays) > 0 => delays[1] = Pow(BackoffDen, Scale)
        /\ \A k \in 1..(Len(delays) - 1) :
              /\ delays[k] < delays[k + 1]
              /\ delays[k + 1] % BackoffNum = 0
              /\ delays[k] % BackoffDen = 0
              /\ delays[k + 1] \div BackoffNum = delays[k] \div BackoffDen

\* a call with the default retries whose six attempts all failed, one of
\* them on a malformed body, and which raised
C3_Witness ==
    /\ fpc = "raised" /\ err = "RuntimeError"
    /\ retries = DefaultRetries
    /\ Len(outs) = DefaultRetries /\ Len(delays) = DefaultRetries
    /\ \E k \in 1..Len(outs) : outs[k] = "malformed"
    /\ \E k \in 1..Len(outs) : outs[k] = "transient"

\* C6: in a run that ended without an interrupt and in which some unit's
\* fetch failed, every unit after a failed one was still requested, every
\* record of a unit that succeeded is in its year's file, in the long file
\* and (by its GEOID) in the wide file, and the run ended normally.
C6_FailureIsolated ==
    (Ended /\ failed # {}) =>
        /\ \A f \in failed : \A u \in Units :
              UnitPos(u[1], u[2]) > UnitPos(f[1], f[2]) => Count(calls, u) > 0
        /\ \A r \in fetched :
              /\ r \in Range(files[YearPath(r.year)].rows)
              /\ CleanLongRow(r) \in Range(files[LongPath].rows)
              /\ \E k \in 1..Len(files[WidePath].rows) :
                    files[WidePath].rows[k].GEOID = r.GEOID
        /\ pc = "done"

\* C7: once the fetch loop is over, all_rows_long holds exactly the records
\* returned by successful fetches, one row per (GEOID, year) pair.
C7_StackedOncePerPair ==
    LoopDone =>
        /\ \A r \in fetched : CountKey(all_rows_long, r.GEOID, r.year) = 1
        /\ Range(all_rows_long) = fetched

\* C9: after an interrupt, every file of the output directory is absent or
\* holds the whole dataset its writer was given.
C9_NoPartialFile ==
    pc = "cancelled" => \A p \in Paths : ~files[p].exists \/ files[p].full

\* ------------------------------------------------------------------------
\* Row construction: lines 188-228 of the fetcher's main(), and to_int
\* ------------------------------------------------------------------------
\* VARS: API variable code -> column name
VarTable ==
    << <<"B19013_001E", "median_income">>,
       <<"B02001_001E", "race_total">>,   <<"B02001_002E", "white_alone">>,
       <<"B02001_003E", "black_alone">>,  <<"B02001_005E", "asian_alone">>,
       <<"B03002_001E", "eth_total">>,    <<"B03002_012E", "hispanic_any">>,
       <<"B01001_001E", "pop_total">>,
       <<"B01001_003E", "male_under5">>,  <<"B01001_027E", "female_under5">>,
       <<"B01001_020E", "male_65_66">>,   <<"B01001_021E", "male_67_69">>,
       <<"B01001_022E", "male_70_74">>,   <<"B01001_023E", "male_75_79">>,
       <<"B01001_024E", "male_80_84">>,   <<"B01001_025E", "male_85_plus">>,
       <<"B01001_044E", "female_65_66">>, <<"B01001_045E", "female_67_69">>,
       <<"B01001_046E", "female_70_74">>, <<"B01001_047E", "female_75_79">>,
       <<"B01001_048E", "female_80_84">>, <<"B01001_049E", "female_85_plus">>,
       <<"B25003_001E", "hh_total">>,     <<"B25003_002E", "owner_occ">>,
       <<"B25003_003E", "renter_occ">> >>

var_codes == {VarTable[k][1] : k \in 1..Len(VarTable)}

VARS == [v \in var_codes |->
            VarTable[CHOOSE k \in 1..Len(VarTable) : VarTable[k][1] = v][2]]

RawNames == {VARS[v] : v \in var_codes}

Under5Parts == {"male_under5", "female_under5"}

Age65Parts ==
    {"male_65_66", "male_67_69", "male_70_74", "male_75_79", "male_80_84",
     "male_85_plus", "female_65_66", "female_67_69", "female_70_74",
     "female_75_79", "female_80_84", "female_85_plus"}

\* percentage field -> <<numerator column, denominator column>>
PctTable ==
    << <<"pct_white", "white_alone", "race_total">>,
       <<"pct_black", "black_alone", "race_total">>,
       <<"pct_asian", "asian_alone", "race_total">>,
       <<"pct_hispanic", "hispanic_any", "eth_total">>,
       <<"pct_under5", "under5", "pop_total">>,
       <<"pct_65plus", "age65plus", "pop_total">>,
       <<"pct_renter", "renter_occ", "hh_total">>,
       <<"pct_owner", "owner_occ", "hh_total">> >>

PctNames == {PctTable[k][1] : k \in 1..Len(PctTable)}

PctNum(p) == PctTable[CHOOSE k \in 1..Len(PctTable) : PctTable[k][1] = p][2]

PctDen(p) == PctTable[CHOOSE k \in 1..Len(PctTable) : PctTable[k][1] = p][3]

RowFields == RawNames \cup {"under5", "age65plus"} \cup PctNames

\* A cell of the decoded JSON table: null, or a string of characters.
JNull == [null |-> TRUE, s |-> << >>]

Str(s) == [null |-> FALSE, s |-> s]

Digits == <<"0", "1", "2", "3", "4", "5", "6", "7", "8", "9">>

IsDigit(c) == \E d \in 1..Len(Digits) : Digits[d] = c

DigitVal(c) == (CHOOSE d \in 1..Len(Digits) : Digits[d] = c) - 1

RECURSIVE Decimal(_)
Decimal(s) ==
    IF s = << >> THEN 0
    ELSE 10 * Decimal(SubSeq(s, 1, Len(s) - 1)) + DigitVal(s[Len(s)])

AllDigits(s) == Len(s) > 0 /\ \A k \in 1..Len(s) : IsDigit(s[k])

\* to_int: int(x), or None when int(x) raises (null, empty or non-numeric)
to_int(x) ==
    IF x.null THEN None
    ELSE IF AllDigits(x.s) THEN Some(Decimal(x.s))
    ELSE IF Len(x.s) > 1 /\ x.s[1] = "-" /\ AllDigits(Tail(x.s))
         THEN Some(0 - Decimal(Tail(x.s)))
    ELSE IF Len(x.s) > 1 /\ x.s[1] = "+" /\ AllDigits(Tail(x.s))
         THEN Some(Decimal(Tail(x.s)))
    ELSE None

\* `x or 0`
OrZero(x) == IF x = None THEN 0 ELSE x[1]

\* round(n / d * 100, 3) in thousandths of a percent, d # 0
Round3(n, d) ==
    LET a == IF d < 0 THEN 0 - n ELSE n
        b == IF d < 0 THEN 0 - d ELSE d
    IN (2 * a * 100000 + b) \div (2 * b)

\* the guard `if total else None`
Truthy(total) == total # 0

\* round(num / total * 100, 3) if total else None
Pct(num, total) == IF Truthy(total) THEN Some(Round3(num, total)) ELSE None

RECURSIVE SumOrZero(_, _)
SumOrZero(b, names) ==
    IF names = {} THEN 0
    ELSE LET n == CHOOSE n \in names : TRUE
         IN OrZero(b[n]) + SumOrZero(b, names \ {n})

\* line 189: {VARS[v]: to_int(rec[idx[v]]) if v in idx else None}
RawRow(r) ==
    [n \in RawNames |->
        LET v == CHOOSE v \in var_codes : VARS[v] = n
        IN IF v \in DOMAIN r THEN to_int(r[v]) ELSE None]

\* lines 205-226
BuildRow(r) ==
    LET b == RawRow(r)
        under5 == SumOrZero(b, Under5Parts)
        age65p == SumOrZero(b, Age65Parts)
        num(p) == CASE p = "pct_under5" -> under5
                    [] p = "pct_65plus" -> age65p
                    [] OTHER -> OrZero(b[PctNum(p)])
    IN [n \in RowFields |->
          CASE n \in RawNames -> b[n]
            [] n = "under5" -> Some(under5)
            [] n = "age65plus" -> Some(age65p)
            [] OTHER -> Pct(num(n), OrZero(b[PctDen(n)]))]

\* Response rows: the headers of one table of the API and, under each, a
\* cell.  A variable the response does not carry has no header.
HeaderSets ==
    { {"B02001_001E", "B02001_002E", "B02001_003E", "B02001_005E"},
      {"B03002_001E", "B03002_012E"},
      {"B01001_001E", "B01001_003E", "B01001_027E"},
      {"B01001_001E", "B01001_020E", "B01001_049E"},
      {"B25003_001E", "B25003_002E", "B25003_003E"},
      {"B19013_001E"} }

RawCells ==
    {JNull, Str(<<"0">>), Str(<<"3">>), Str(<<"1", "2">>), Str(<<"-", "6">>),
     Str(<<"N">>)}

Build ==
    /\ rpc = "raw"
    /\ row' = BuildRow(rec)
    /\ rpc' = "built"
    /\ UNCHANGED rec
    /\ UNCHANGED <<mvars, jvars, wvars, nvars, cvars>>

InitRow ==
    /\ pc = "off"
    /\ IdleMain /\ IdleFetch /\ IdleWavg /\ IdleNorm /\ IdleJoin
    /\ \E h \in HeaderSets : rec \in [h -> RawCells]
    /\ row = << >>
    /\ rpc = "raw"

SpecRow == InitRow /\ [][Build]_vars

\* C5: in every record built, a percentage field carries a value only when
\* its denominator is present and strictly positive; with the denominator
\* absent, zero or negative the field is absent.
C5_PctNeedsPositiveDenominator ==
    rpc = "built" =>
        \A p \in PctNames :
            row[p] # None <=> (row[PctDen(p)] # None /\ row[PctDen(p)][1] > 0)

\* C10: in every record built, a raw count that did not parse is absent,
\* under5 and age65plus are not 0 when every one of their components is
\* absent, and a percentage whose numerator is absent is not 0.
C10_MissingNeverZero ==
    rpc = "built" =>
        /\ \A v \in DOMAIN rec : to_int(rec[v]) = None => row[VARS[v]] = None
        /\ (\A n \in Under5Parts : row[n] = None) => row["under5"] # Some(0)
        /\ (\A n \in Age65Parts : row[n] = None) => row["age65plus"] # Some(0)
        /\ \A p \in PctNames : row[PctNum(p)] = None => row[p] # Some(0)

\* ------------------------------------------------------------------------
\* weighted_avg (aggregate_acs.py, lines 29-35)
\* ------------------------------------------------------------------------
\* A cell of a DataFrame column: a number, NaN, or a string that is no number.
Num(n) == [k |-> "num", n |-> n]

NaN == [k |-> "nan", n |-> 0]

Text == [k |-> "str", n |-> 0]

\* pd.to_numeric(col, errors="coerce") on one cell
to_numeric(c) == IF c.k = "num" THEN Some(c.n) ELSE None

RECURSIVE SumSeq(_)
SumSeq(s) == IF s = << >> THEN 0 ELSE SumSeq(SubSeq(s, 1, Len(s) - 1)) + s[Len(s)]

\* Series.sum() skips NaN; here on the list of optional numbers
SkipNaSum(col) == SumSeq([k \in 1..Len(col) |-> OrZero(col[k])])

\* v * w: NaN where either is NaN
Times(v, w) ==
    [k \in 1..Len(v) |->
        IF v[k] = None \/ w[k] = None THEN None ELSE Some(v[k][1] * w[k][1])]

\* the denominator of line 35: w.sum()
Denominator(v, w) == SkipNaSum(w)

\* The result is None or the fraction <<numerator, denominator>>.
weighted_avg(g) ==
    LET w == [k \in 1..Len(g) |-> to_numeric(g[k].w)]
        v == [k \in 1..Len(g) |-> to_numeric(g[k].v)]
        notna == Cardinality({k \in 1..Len(w) : w[k] # None})
    IN IF notna = 0 \/ SkipNaSum(w) = 0 THEN None
       ELSE <<SkipNaSum(Times(v, w)), Denominator(v, w)>>

ValueCells == {NaN, Text, Num(10), Num(20)}

WeightCells == {NaN, Num(0), Num(1), Num(3), Num(5)}

Apply ==
    /\ wpc = "group"
    /\ wres' = weighted_avg(grp)
    /\ wpc' = "done"
    /\ UNCHANGED grp
    /\ UNCHANGED <<mvars, jvars, rvars, nvars, cvars>>

InitWavg ==
    /\ pc = "off"
    /\ IdleMain /\ IdleFetch /\ IdleRow /\ IdleNorm /\ IdleJoin
    /\ \E n \in 1..MaxMembers : grp \in [1..n -> [v : ValueCells, w : WeightCells]]
    /\ wres = << >>
    /\ wpc = "group"

SpecWavg == InitWavg /\ [][Apply]_vars

\* the members with both a value and a weight
Both(g) == {k \in 1..Len(g) : g[k].v.k = "num" /\ g[k].w.k = "num"}

SameRatio(a, b) ==
    \/ a = None /\ b = None
    \/ a # None /\ b # None /\ a[1] * b[2] = b[1] * a[2]

\* C2: weighted_avg returns sum(value*weight)/sum(weight) over the members
\* with both present, and None when there is none or their weights sum to 0.
C2_WeightedMean ==
    wpc = "done" =>
        LET in == Both(grp)
            num == SumSeq([k \in 1..Len(grp) |->
                      IF k \in in THEN grp[k].v.n * grp[k].w.n ELSE 0])
            den == SumSeq([k \in 1..Len(grp) |-> IF k \in in THEN grp[k].w.n ELSE 0])
        IN IF in = {} \/ den = 0
           THEN wres = None
           ELSE SameRatio(wres, <<num, den>>)

\* ------------------------------------------------------------------------
\* Identifier normalisation: astype(str).str.zfill(11)
\* (aggregate_acs.py lines 51 and 62, joint.py lines 17 and 20)
\* ------------------------------------------------------------------------
RECURSIVE IntStr(_)
IntStr(n) ==
    IF n < 10 THEN <<Digits[n + 1]>>
    ELSE Append(IntStr(n \div 10), Digits[(n % 10) + 1])

\* astype(str): an integer cell becomes its decimal digits
astype_str(c) == IF c.k = "num" THEN IntStr(c.n) ELSE c.s

RECURSIVE Zeros(_)
Zeros(n) == IF n <= 0 THEN << >> ELSE Append(Zeros(n - 1), "0")

\* str.zfill(width): pads on the left, leaves a longer string as it is
zfill(s, width) == Zeros(width - Len(s)) \o s

RECURSIVE Strings(_)
Strings(n) ==
    IF n = 0 THEN {<< >>}
    ELSE LET shorter == Strings(n - 1)
         IN shorter \cup {Append(t, c) : t \in {u \in shorter : Len(u) = n - 1},
                                          c \in {"0", "7"}}

KeyCells == {[k |-> "str", s |-> t, n |-> 0] : t \in Strings(MaxLen)}
            \cup {[k |-> "num", s |-> << >>, n |-> m] : m \in 0..MaxInt}

Normalize ==
    /\ npc = "read"
    /\ key_out' = zfill(astype_str(key_in), Width)
    /\ npc' = "done"
    /\ UNCHANGED key_in
    /\ UNCHANGED <<mvars, jvars, rvars, wvars, cvars>>

InitNorm ==
    /\ pc = "off"
    /\ IdleMain /\ IdleFetch /\ IdleRow /\ IdleWavg /\ IdleJoin
    /\ key_in \in KeyCells
    /\ key_out = << >>
    /\ npc = "read"

SpecNorm == InitNorm /\ [][Normalize]_vars

\* C8: normalisation yields exactly 11 characters, the input left-padded
\* with zeros, or it fails; an input of more than 11 characters fails.
C8_ElevenOrFail ==
    /\ npc = "done" =>
          /\ Len(key_out) = Width
          /\ \E z \in 0..Width : key_out = Zeros(z) \o astype_str(key_in)
    /\ (npc # "read" /\ Len(astype_str(key_in)) > Width) => npc = "failed"

\* ------------------------------------------------------------------------
\* Reconcile: the left join and its coverage check
\* (aggregate_acs.py main, lines 78-85)
\* ------------------------------------------------------------------------
\* the NTA2020 of a boundary row
Group(id) == id % 3

\* df.merge(gdf[[tract_key, GROUP_FIELD]], how="left", validate="m:1"):
\* GROUP_FIELD of every indicator row, NaN where no boundary row matches
LeftJoin(keys, boundary) ==
    [k \in 1..Len(keys) |->
        IF keys[k] \in boundary THEN Some(Group(keys[k])) ELSE None]

NaCount(col) == Cardinality({k \in 1..Len(col) : col[k] = None})

\* the comparison turned into <=
CoverageOkInclusive(na, n) == na * ThresholdDen <= ThresholdNum * n

\* assert miss < 0.02, with miss = isna().mean() = na / n
CoverageOk(na, n) == na * ThresholdDen < ThresholdNum * n

Merge ==
    /\ cpc = "loaded"
    /\ merged' = LeftJoin(df_keys, gdf_keys)
    /\ cpc' = "merged"
    /\ UNCHANGED <<df_keys, gdf_keys>>
    /\ UNCHANGED <<mvars, jvars, rvars, wvars, nvars>>

CheckCoverage ==
    /\ cpc = "merged"
    /\ cpc' = IF CoverageOk(NaCount(merged), Len(merged)) THEN "aggregate" ELSE "abort"
    /\ UNCHANGED <<df_keys, gdf_keys, merged>>
    /\ UNCHANGED <<mvars, jvars, rvars, wvars, nvars>>

\* n indicator rows with identifiers 1..n, of which the first m have no
\* boundary row
InitJoin ==
    /\ pc = "off"
    /\ IdleMain /\ IdleFetch /\ IdleRow /\ IdleWavg /\ IdleNorm
    /\ \E n \in 1..MaxRows : \E m \in 0..n :
          /\ df_keys = [k \in 1..n |-> k]
          /\ gdf_keys = (m + 1)..(MaxRows + 1)
    /\ merged = << >>
    /\ cpc = "loaded"

NextJoin == Merge \/ CheckCoverage

SpecJoin == InitJoin /\ [][NextJoin]_vars

Unmatched == Cardinality({k \in 1..Len(df_keys) : df_keys[k] \notin gdf_keys})

\* C4 as stated: the check aborts exactly when the join-failure rate
\* exceeds 2%, and a rate of exactly 2% passes.
C4_AbortIffAbove2Pct ==
    cpc \in {"aggregate", "abort"} =>
        (cpc = "abort" <=> Unmatched * ThresholdDen > ThresholdNum * Len(df_keys))

\* C4 amended: the check aborts exactly when the join-failure rate is at
\* least 2%; only a rate strictly below 2% proceeds to aggregation.
C4_AbortIffAtLeast2Pct ==
    cpc \in {"aggregate", "abort"} =>
        (cpc = "abort" <=> Unmatched * ThresholdDen >= ThresholdNum * Len(df_keys))

\* a run at exactly 2% (one unmatched row in fifty) that aborted
C4_Witness ==
    /\ cpc = "abort"
    /\ Unmatched > 0
    /\ Unmatched * ThresholdDen = ThresholdNum * Len(df_keys)

=============================================================================
